---- MODULE Spec2Model ----
(***************************************************************************)
(* Kociemba two-phase solver of abhinavdogra21/Rubix-Cube-Solver:          *)
(* kociemba::Cube (cube.cpp), kociemba::Solver (solver.cpp) and the       *)
(* kociemba_solve wrapper (kociemba_wrapper.cpp).                          *)
(*                                                                         *)
(* C++ arrays are 0-based; they are modelled as functions on 0..n-1.      *)
(* Constant tables written as tuples are read through At0.                *)
(* A facelet string is a sequence of one-character strings.               *)
(***************************************************************************)
EXTENDS Integers, Sequences, FiniteSets, TLC

VARIABLES
    \* ---- a kociemba::Cube object driven through its public interface
    cp, co, ep, eo,      \* Cube::cp, co, ep, eo
    nMoves,              \* number of applyMove calls made on it so far
    text,                \* the facelet string last written for it by toString
    ctorArg,             \* the string it was constructed from; <<>> for Cube()
    \* ---- one call of Solver::solve
    state,               \* the argument of solve
    pc,                  \* position inside solve
    cube,                \* solve's local Cube (record cp, co, ep, eo)
    phase1Cube,          \* solve's copy of it with the phase-1 moves applied
    depth,               \* loop variable of phase1 / phase2
    phase1Solution, phase2Solution, solution,
    outcome,             \* how solve ended
    searchCalls,         \* top-level searchPhase1 / searchPhase2 calls made
    coordsComputed,      \* TRUE once a get<Coordinate>() was evaluated
    solutionProduced,    \* TRUE once solve holds the joined list of both phases
    \* ---- Solver::optimizeSolution as a function of its argument, and the rendering of
    \* ---- a move list by kociemba_solve
    optIn, optOut, optPc, rendered,
    \* ---- the static pruning tables of Solver, a caller of kociemba_solve constructing
    \* ---- a further Solver, and a search reading the tables in another caller
    prun,                \* kind -> the entries that are not -1 (index :> value)
    ctorPc,              \* position of the constructing caller
    ctorKind,            \* which do-while loop of initPruningTables it is in (1..6)
    ctorDepth,           \* the local `depth` of initPruningTables
    seen,                \* the entries last read by the search of the other caller
    \* ---- a walk through one coordinate's move table, as the fill loops and the searches
    \* ---- make it
    wKind,               \* the table
    wStart,              \* the coordinate the walk started from
    wCur,                \* the coordinate reached
    wPath,               \* the moves followed
    wPushed,             \* per searchPhase2 call made: the moves it pushed onto `solution`
    wTried,              \* per searchPhase1 call made: the contents of `solution` after each push
    \* ---- CustomCubeSolver: a scramble string and its validation
    scramble,            \* the string (typed by a caller or returned by generateScramble)
    scrPc,               \* "input", "generated" or "validated"
    scrValid,            \* the return value of isValidScramble(scramble)
    \* ---- CustomCubeSolver: a CubeState turned by a scramble and then by the string
    \* ---- solve returns for that scramble
    stickers,            \* CubeState::stickers
    invScramble,         \* the scramble string, its moves already applied to the CubeState
    invSolution,         \* the string solve(invScramble) returned
    invPc,               \* "scramble", "apply" (applying invSolution) or "done"
    invApplied           \* number of moves of invSolution applied so far

cubeVars  == <<cp, co, ep, eo, nMoves, text, ctorArg>>
solveVars == <<state, pc, cube, phase1Cube, depth, phase1Solution, phase2Solution, solution,
               outcome, searchCalls, coordsComputed, solutionProduced>>
optVars   == <<optIn, optOut, optPc, rendered>>
tableVars == <<prun, ctorPc, ctorKind, ctorDepth, seen>>
walkVars  == <<wKind, wStart, wCur, wPath, wPushed, wTried>>
scrVars   == <<scramble, scrPc, scrValid>>
invVars   == <<stickers, invScramble, invSolution, invPc, invApplied>>
vars      == <<cubeVars, solveVars, optVars, tableVars, walkVars, scrVars, invVars>>

(***************************************************************************)
(* Bounds of the model.                                                    *)
(***************************************************************************)
\* applyMove calls made on the Cube object
MaxMoves == 3
\* Solver::setMaxDepth(phase1, phase2): the thresholds the two loops run to
MaxDepthPhase1 == 2
MaxDepthPhase2 == 2
\* length of the lists handed to optimizeSolution
MaxListLen == 3
\* coordinates 0 .. MaxStart start a walk through a move table, of at most MaxPath moves
MaxStart == 8
MaxPath == 2
\* a typed scramble has at most MaxChars characters, a generated one at most MaxScramble moves
MaxChars == 4
MaxScramble == 2
\* moves of a scramble handed to CustomCubeSolver::solve
MaxInvMoves == 2

(***************************************************************************)
(* Helpers.                                                                *)
(***************************************************************************)
At0(t, i) == t[i + 1]

RECURSIVE SumTo(_, _)
\* f[0] + ... + f[n-1]
SumTo(f, n) == IF n = 0 THEN 0 ELSE SumTo(f, n - 1) + f[n - 1]

Moves == 0 .. 17
U1 == 0
R1 == 3
F1 == 6
D1 == 9
L1 == 12
B1 == 15
Corners == 0 .. 7
Edges == 0 .. 11

(***************************************************************************)
(* cube.cpp: helper functions.                                             *)
(***************************************************************************)
factorial(n) == At0(<<1, 1, 2, 6, 24, 120, 720, 5040, 40320, 362880, 3628800, 39916800>>, n)

RECURSIVE CnkLoop(_, _, _, _)
CnkLoop(n, k, i, s) == IF i < k THEN CnkLoop(n, k, i + 1, (s * (n - i)) \div (i + 1)) ELSE s

Cnk(n, k) ==
    IF n < k \/ k < 0 THEN 0
    ELSE LET kk == IF k > n \div 2 THEN n - k ELSE k
         IN  CnkLoop(n, kk, 0, 1)

(***************************************************************************)
(* cube.cpp: the static move tables.                                       *)
(***************************************************************************)
\* Corner names URF..DRB are 0..7, edge names UR..BR are 0..11.
cornerMoveBasic ==
    <<  <<3, 0, 1, 2, 4, 5, 6, 7>>,     \* U1: UBR URF UFL ULB DFR DLF DBL DRB
        <<4, 1, 2, 0, 7, 5, 6, 3>>,     \* R1: DFR UFL ULB URF DRB DLF DBL UBR
        <<1, 5, 2, 3, 0, 4, 6, 7>>,     \* F1: UFL DLF ULB UBR URF DFR DBL DRB
        <<0, 1, 2, 3, 5, 6, 7, 4>>,     \* D1: URF UFL ULB UBR DLF DBL DRB DFR
        <<0, 6, 2, 3, 4, 1, 5, 7>>,     \* L1: URF DBL ULB UBR DFR UFL DLF DRB
        <<0, 1, 7, 3, 4, 5, 2, 6>>  >>  \* B1: URF UFL DRB UBR DFR DLF ULB DBL

initCornerMove ==
    [m \in Moves |->
        LET b  == At0(cornerMoveBasic, m \div 3)
            m1 == [i \in Corners |-> At0(b, i)]
            m2 == [i \in Corners |-> m1[m1[i]]]
            m3 == [i \in Corners |-> m1[m2[i]]]
        IN  CASE m % 3 = 0 -> m1
              [] m % 3 = 1 -> m2
              [] OTHER     -> m3]

cornerMove == initCornerMove

cornerOrientBasic ==
    <<  <<0, 0, 0, 0, 0, 0, 0, 0>>,     \* U1
        <<2, 0, 0, 1, 1, 0, 0, 2>>,     \* R1
        <<1, 2, 0, 0, 2, 1, 0, 0>>,     \* F1
        <<0, 0, 0, 0, 0, 0, 0, 0>>,     \* D1
        <<0, 1, 0, 0, 0, 2, 2, 0>>,     \* L1
        <<0, 0, 1, 2, 0, 0, 2, 1>>  >>  \* B1

initCornerOrient ==
    [m \in Moves |->
        LET f  == m \div 3
            o1 == [i \in Corners |-> At0(At0(cornerOrientBasic, f), i)]
            c1 == cornerMove[3 * f]
            c2 == cornerMove[3 * f + 1]
            o2 == [i \in Corners |-> (o1[i] + o1[c1[i]]) % 3]
            o3 == [i \in Corners |-> (o1[i] + o1[c1[i]] + o1[c2[i]]) % 3]
        IN  CASE m % 3 = 0 -> o1
              [] m % 3 = 1 -> o2
              [] OTHER     -> o3]

cornerOrient == initCornerOrient

edgeMoveBasic ==
    <<  <<3, 0, 1, 2, 4, 5, 6, 7, 8, 9, 10, 11>>,     \* U1: UB UR UF UL DR DF DL DB FR FL BL BR
        <<8, 1, 2, 3, 11, 5, 6, 7, 4, 9, 10, 0>>,     \* R1: FR UF UL UB BR DF DL DB DR FL BL UR
        <<1, 9, 2, 3, 4, 8, 6, 7, 5, 1, 10, 11>>,     \* F1: UF FL UL UB DR FR DL DB DF UF BL BR
        <<0, 1, 2, 3, 5, 6, 7, 4, 8, 9, 10, 11>>,     \* D1: UR UF UL UB DF DL DB DR FR FL BL BR
        <<0, 1, 10, 3, 4, 5, 9, 7, 8, 2, 6, 11>>,     \* L1: UR UF BL UB DR DF FL DB FR UL DL BR
        <<0, 1, 2, 11, 4, 5, 6, 10, 8, 9, 3, 7>>  >>  \* B1: UR UF UL BR DR DF DL BL FR FL UB DB

initEdgeMove ==
    [m \in Moves |->
        LET b  == At0(edgeMoveBasic, m \div 3)
            m1 == [i \in Edges |-> At0(b, i)]
            m2 == [i \in Edges |-> m1[m1[i]]]
            m3 == [i \in Edges |-> m1[m2[i]]]
        IN  CASE m % 3 = 0 -> m1
              [] m % 3 = 1 -> m2
              [] OTHER     -> m3]

edgeMove == initEdgeMove

edgeOrientBasic ==
    <<  <<0, 0, 0, 0, 0, 0, 0, 0, 0, 0, 0, 0>>,     \* U1
        <<0, 0, 0, 0, 0, 0, 0, 0, 0, 0, 0, 0>>,     \* R1
        <<1, 1, 0, 0, 0, 1, 0, 0, 1, 1, 0, 0>>,     \* F1
        <<0, 0, 0, 0, 0, 0, 0, 0, 0, 0, 0, 0>>,     \* D1
        <<0, 0, 0, 0, 0, 0, 0, 0, 0, 0, 0, 0>>,     \* L1
        <<0, 0, 0, 1, 0, 0, 0, 1, 0, 0, 1, 1>>  >>  \* B1

initEdgeOrient ==
    [m \in Moves |->
        LET f  == m \div 3
            o1 == [i \in Edges |-> At0(At0(edgeOrientBasic, f), i)]
            e1 == edgeMove[3 * f]
            e2 == edgeMove[3 * f + 1]
            o2 == [i \in Edges |-> (o1[i] + o1[e1[i]]) % 2]
            o3 == [i \in Edges |-> (o1[i] + o1[e1[i]] + o1[e2[i]]) % 2]
        IN  CASE m % 3 = 0 -> o1
              [] m % 3 = 1 -> o2
              [] OTHER     -> o3]

edgeOrient == initEdgeOrient

(***************************************************************************)
(* cube.cpp: the Cube value and its operations. A Cube is a record         *)
(* [cp, co, ep, eo].                                                       *)
(***************************************************************************)
\* Cube::Cube()
SolvedCube ==
    [cp |-> [i \in Corners |-> i], co |-> [i \in Corners |-> 0],
     ep |-> [i \in Edges |-> i],   eo |-> [i \in Edges |-> 0]]

\* Cube::applyMove
applyMove(c, move) ==
    [cp |-> [i \in Corners |-> cornerMove[move][i]],
     co |-> [i \in Corners |-> (c.co[cornerMove[move][i]] + cornerOrient[move][i]) % 3],
     ep |-> [i \in Edges |-> edgeMove[move][i]],
     eo |-> [i \in Edges |-> (c.eo[edgeMove[move][i]] + edgeOrient[move][i]) % 2]]

\* Cube::isSolved
isSolved(c) ==
    /\ \A i \in Corners : c.cp[i] = i /\ c.co[i] = 0
    /\ \A i \in Edges : c.ep[i] = i /\ c.eo[i] = 0

(***************************************************************************)
(* cube.cpp: coordinates.                                                  *)
(***************************************************************************)
RECURSIVE TwistLoop(_, _, _)
TwistLoop(c, i, twist) == IF i < 7 THEN TwistLoop(c, i + 1, twist * 3 + c.co[i]) ELSE twist

computeTwist(c) == TwistLoop(c, 0, 0)

RECURSIVE FlipLoop(_, _, _)
FlipLoop(c, i, flip) == IF i < 11 THEN FlipLoop(c, i + 1, flip * 2 + c.eo[i]) ELSE flip

computeFlip(c) == FlipLoop(c, 0, 0)

RECURSIVE SliceLoop(_, _, _, _)
SliceLoop(c, i, x, slice) ==
    IF i < 12
    THEN IF c.ep[i] >= 8
         THEN SliceLoop(c, i + 1, x + 1, slice + Cnk(11 - i, x + 1))
         ELSE SliceLoop(c, i + 1, x, slice)
    ELSE slice

computeSlice(c) == SliceLoop(c, 0, 0, 0)

computeParity(c) ==
    Cardinality({p \in Corners \X Corners : p[1] < p[2] /\ c.cp[p[1]] > c.cp[p[2]]}) % 2

\* number of later entries of p (a function on 0..n-1) that are greater than p[i]
GreaterAfter(p, n, i) == Cardinality({j \in (i + 1) .. (n - 1) : p[j] > p[i]})

RECURSIVE LehmerLoop(_, _, _, _)
\* index += v * factorial(r), r counting down from n - 1
LehmerLoop(p, n, i, index) ==
    IF i < n
    THEN LehmerLoop(p, n, i + 1, index + GreaterAfter(p, n, i) * factorial(n - 1 - i))
    ELSE index

computeURFtoDLF(c) == LehmerLoop(c.cp, 8, 0, 0)

computeURtoBR(c) == LehmerLoop(c.ep, 12, 0, 0)

getTwist(c) == computeTwist(c)
getFlip(c) == computeFlip(c)
getSlice(c) == computeSlice(c)
getParity(c) == computeParity(c)
getURFtoDLF(c) == computeURFtoDLF(c)
getURtoBR(c) == computeURtoBR(c)

(***************************************************************************)
(* cube.cpp: facelet strings.                                              *)
(***************************************************************************)
FaceLetters == <<"U", "R", "F", "D", "L", "B">>
LetterSet == {"U", "R", "F", "D", "L", "B"}

\* colorToFace in initFromString; only the six letters are ever assigned
colorToFace(ch) == CHOOSE k \in 0 .. 5 : At0(FaceLetters, k) = ch

cornerFacelet ==
    <<  <<8, 9, 20>>,  <<6, 18, 38>>,  <<0, 36, 47>>,  <<2, 45, 11>>,
        <<29, 26, 15>>, <<27, 44, 24>>, <<33, 53, 42>>, <<35, 17, 51>>  >>

cornerColor ==
    <<  <<0, 1, 2>>, <<0, 2, 4>>, <<0, 4, 5>>, <<0, 5, 1>>,
        <<3, 2, 1>>, <<3, 4, 2>>, <<3, 5, 4>>, <<3, 1, 5>>  >>

edgeFacelet ==
    <<  <<5, 10>>,  <<7, 19>>,  <<3, 37>>,  <<1, 46>>,
        <<32, 16>>, <<28, 25>>, <<30, 43>>, <<34, 52>>,
        <<23, 12>>, <<21, 41>>, <<39, 50>>, <<48, 14>>  >>

edgeColor ==
    <<  <<0, 1>>, <<0, 2>>, <<0, 4>>, <<0, 5>>,
        <<3, 1>>, <<3, 2>>, <<3, 4>>, <<3, 5>>,
        <<2, 1>>, <<2, 4>>, <<5, 4>>, <<5, 1>>  >>

centerFacelet == <<4, 13, 22, 31, 40, 49>>

\* the colour Cube::toString writes at facelet k (0..2) of the corner slot holding cubie v
CornerColourAt(v, k) ==
    CASE k = 0 -> At0(FaceLetters, v \div 3)
      [] k = 1 -> At0(FaceLetters, (v + 1) % 6)
      [] OTHER -> At0(FaceLetters, (v + 2) % 6)

\* the colour Cube::toString writes at facelet k (0..1) of the edge slot holding cubie v
EdgeColourAt(v, k) ==
    IF k = 0 THEN At0(FaceLetters, v \div 3) ELSE At0(FaceLetters, (v + 1) % 6)

\* Cube::toString
toString(c) ==
    [q \in 1 .. 54 |->
        LET p == q - 1
        IN  IF \E f \in 0 .. 5 : At0(centerFacelet, f) = p
            THEN At0(FaceLetters, CHOOSE f \in 0 .. 5 : At0(centerFacelet, f) = p)
            ELSE IF \E i \in Corners, k \in 0 .. 2 : At0(At0(cornerFacelet, i), k) = p
            THEN LET ik == CHOOSE ik \in Corners \X (0 .. 2) :
                                At0(At0(cornerFacelet, ik[1]), ik[2]) = p
                 IN  CornerColourAt(c.cp[ik[1]], ik[2])
            ELSE LET ik == CHOOSE ik \in Edges \X (0 .. 1) :
                                At0(At0(edgeFacelet, ik[1]), ik[2]) = p
                 IN  EdgeColourAt(c.ep[ik[1]], ik[2])]

\* occurrences of ch in the string s
Count(s, ch) == Cardinality({q \in 1 .. Len(s) : s[q] = ch})

\* isValidState without its second loop (the per-letter count test)
isValidStateWithoutCounts(s) ==
    /\ Len(s) = 54
    /\ \A q \in 1 .. Len(s) : s[q] \in LetterSet

\* Cube::isValidState
isValidState(s) ==
    /\ Len(s) = 54
    /\ \A q \in 1 .. Len(s) : s[q] \in LetterSet
    /\ \A ch \in {s[q] : q \in 1 .. Len(s)} : Count(s, ch) = 9

\* Cube::moveToString: faces[move / 3] followed by amounts[move % 3], amounts = " 2'"
moveToString(move) ==
    <<At0(FaceLetters, move \div 3), At0(<<" ", "2", "'">>, move % 3)>>

(***************************************************************************)
(* cube.cpp: Cube::initFromString. A slot whose stickers match no cubie     *)
(* is never assigned: newCp/newCo/newEp/newEo are uninitialised locals,    *)
(* so the value read back is whatever the storage held. g = [cp, co, ep,   *)
(* eo] gives the value such entries read as.                               *)
(***************************************************************************)
\* the values an unassigned entry is sampled at (the storage can hold any int,
\* negative ones included; 5 puts twist and the permutation coordinates out of range)
UninitSample == {0, 2, 5}

Garbage == [cp : UninitSample, co : UninitSample, ep : UninitSample, eo : UninitSample]

CornerColours(s, i) ==
    [k \in 0 .. 2 |-> colorToFace(s[At0(At0(cornerFacelet, i), k) + 1])]

CornerMatches(colors, j, ori) ==
    \A k \in 0 .. 2 : colors[k] = At0(At0(cornerColor, j), (k + ori) % 3)

\* the (j, ori) last assigned by the loops over j and ori for slot i, or <<>>
CornerFound(s, i) ==
    LET colors == CornerColours(s, i)
        js == {j \in Corners : \E ori \in 0 .. 2 : CornerMatches(colors, j, ori)}
    IN  IF js = {} THEN <<>>
        ELSE LET j == CHOOSE j \in js : \A j2 \in js : j2 <= j
                 oris == {ori \in 0 .. 2 : CornerMatches(colors, j, ori)}
             IN  <<j, CHOOSE ori \in oris : \A o2 \in oris : ori <= o2>>

EdgeColours(s, i) ==
    [k \in 0 .. 1 |-> colorToFace(s[At0(At0(edgeFacelet, i), k) + 1])]

EdgeMatches(colors, j, ori) ==
    \A k \in 0 .. 1 : colors[k] = At0(At0(edgeColor, j), (k + ori) % 2)

\* the (j, ori) assigned before the break of the loop over j for slot i, or <<>>
EdgeFound(s, i) ==
    LET colors == EdgeColours(s, i)
        js == {j \in Edges : \E ori \in 0 .. 1 : EdgeMatches(colors, j, ori)}
    IN  IF js = {} THEN <<>>
        ELSE LET j == CHOOSE j \in js : \A j2 \in js : j <= j2
             IN  <<j, IF EdgeMatches(colors, j, 0) THEN 0 ELSE 1>>

initFromString(s, g) ==
    [cp |-> [i \in Corners |-> IF CornerFound(s, i) = <<>> THEN g.cp ELSE CornerFound(s, i)[1]],
     co |-> [i \in Corners |-> IF CornerFound(s, i) = <<>> THEN g.co ELSE CornerFound(s, i)[2]],
     ep |-> [i \in Edges |-> IF EdgeFound(s, i) = <<>> THEN g.ep ELSE EdgeFound(s, i)[1]],
     eo |-> [i \in Edges |-> IF EdgeFound(s, i) = <<>> THEN g.eo ELSE EdgeFound(s, i)[2]]]

\* TRUE when every slot of s is assigned by initFromString
AllSlotsMatched(s) ==
    /\ \A i \in Corners : CornerFound(s, i) # <<>>
    /\ \A i \in Edges : EdgeFound(s, i) # <<>>

(***************************************************************************)
(* solver.cpp: move-pair predicates and optimizeSolution.                  *)
(***************************************************************************)
isMovePairAllowed(m1, m2) == (m1 \div 3) # (m2 \div 3)

\* isPhase2Move letting every turn but the clockwise quarter turn through
isPhase2MoveNoClockwise(move) ==
    IF move \div 3 = 0 \/ move \div 3 = 3 THEN TRUE ELSE move % 3 # 0

isPhase2Move(move) ==
    IF move \div 3 = 0 \/ move \div 3 = 3 THEN TRUE ELSE move % 3 = 1

areMovesCancelling(m1, m2) == (m1 \div 3) = (m2 \div 3) /\ (m1 % 3) + (m2 % 3) = 3

\* areMovesCombinable comparing the moves instead of their faces
areMovesCombinableEqualOnly(m1, m2) == m1 = m2

areMovesCombinable(m1, m2) == (m1 \div 3) = (m2 \div 3)

combineMoves(m1, m2) ==
    LET face   == m1 \div 3
        amount == ((m1 % 3) + (m2 % 3)) % 4
    IN  face * 3 + (IF amount = 3 THEN 1 ELSE amount)

\* the list l (1-based) without its elements at 0-based positions i .. i+n-1
Erase(l, i, n) == SubSeq(l, 1, i) \o SubSeq(l, i + n + 1, Len(l))

\* the least element of the set of integers S, or -1 when S is empty
FirstOf(S) == IF S = {} THEN -1 ELSE CHOOSE i \in S : \A k \in S : i <= k

\* first 0-based i with i + 1 < Len(l) and areMovesCancelling(l[i], l[i+1]), or -1
FirstCancelling(l) ==
    FirstOf({i \in 0 .. Len(l) - 2 : areMovesCancelling(l[i + 1], l[i + 2])})

\* first 0-based i with i + 1 < Len(l) and areMovesCombinable(l[i], l[i+1]), or -1
FirstCombinable(l) ==
    FirstOf({i \in 0 .. Len(l) - 2 : areMovesCombinable(l[i + 1], l[i + 2])})

RECURSIVE optimizeSolution(_)
\* One evaluation is the whole do-while loop. Both for loops run to
\* solution.size() - 1 computed in size_t: on an empty vector the bound wraps to
\* SIZE_MAX and solution[0], solution[1] are read outside the vector. The result is
\* [kind |-> "returned", list |-> the optimised list] or [kind |-> "oob", list |-> the
\* (empty) list at the out-of-bounds read].
optimizeSolution(l) ==
    IF Len(l) = 0 THEN [kind |-> "oob", list |-> l]
    ELSE LET ia == FirstCancelling(l)
             la == IF ia = -1 THEN l ELSE Erase(l, ia, 2)
         IN  IF Len(la) = 0 THEN [kind |-> "oob", list |-> la]
             ELSE LET ib == FirstCombinable(la)
                      lb == IF ib = -1 THEN la
                            ELSE Erase([la EXCEPT ![ib + 1] = combineMoves(la[ib + 1], la[ib + 2])],
                                       ib + 1, 1)
                  IN  IF ia = -1 /\ ib = -1 THEN [kind |-> "returned", list |-> lb]
                      ELSE optimizeSolution(lb)

(***************************************************************************)
(* solver.cpp: Solver::initMoveTables. Each table entry is the coordinate  *)
(* of the reference cube built for index i after applyMove(j).             *)
(***************************************************************************)
N_TWIST == 2187
N_FLIP == 2048
N_SLICE == 495
N_PERM == 40320
N_PARITY == 2

RECURSIVE TwistCubeLoop(_, _, _)
TwistCubeLoop(c, j, twist) ==
    IF j >= 0
    THEN TwistCubeLoop([c EXCEPT !.co[j] = twist % 3], j - 1, twist \div 3)
    ELSE c

twistMove(i, j) == getTwist(applyMove(TwistCubeLoop(SolvedCube, 6, i), j))

RECURSIVE FlipCubeLoop(_, _, _)
FlipCubeLoop(c, j, flip) ==
    IF j >= 0
    THEN FlipCubeLoop([c EXCEPT !.eo[j] = flip % 2], j - 1, flip \div 2)
    ELSE c

flipMove(i, j) == getFlip(applyMove(FlipCubeLoop(SolvedCube, 10, i), j))

RECURSIVE SliceCubeLoop(_, _, _, _)
SliceCubeLoop(c, j, k, slice) ==
    IF j < 12
    THEN IF k < 4 /\ slice < Cnk(11 - j, 3 - k)
         THEN SliceCubeLoop([c EXCEPT !.ep[j] = j + 8], j + 1, k + 1, slice)
         ELSE SliceCubeLoop([c EXCEPT !.ep[j] = j - k], j + 1, k, slice - Cnk(11 - j, 3 - k))
    ELSE c

sliceMove(i, j) == getSlice(applyMove(SliceCubeLoop(SolvedCube, 0, 0, i), j))

\* one round of the while (val > 0) body: p[j] = p[j-1]; for k = j-1 .. 1: p[k] = p[k-1]
ShiftUp(p, j) == [x \in DOMAIN p |-> IF 1 <= x /\ x <= j THEN p[x - 1] ELSE p[x]]

RECURSIVE ShiftTimes(_, _, _)
ShiftTimes(p, j, val) == IF val > 0 THEN ShiftTimes(ShiftUp(p, j), j, val - 1) ELSE p

RECURSIVE PermLoop(_, _, _)
PermLoop(p, j, perm) ==
    IF j >= 0
    THEN PermLoop(ShiftTimes(p, j, perm % (j + 1)), j - 1, perm \div (j + 1))
    ELSE p

URFtoDLFMove(i, j) ==
    getURFtoDLF(applyMove([SolvedCube EXCEPT !.cp = PermLoop(SolvedCube.cp, 7, i)], j))

URtoBRMove(i, j) ==
    getURtoBR(applyMove([SolvedCube EXCEPT !.ep = PermLoop(SolvedCube.ep, 7, i)], j))

parityMove(i, j) ==
    LET c == IF i = 1 THEN applyMove(applyMove(SolvedCube, R1), U1) ELSE SolvedCube
    IN  getParity(applyMove(c, j))

(***************************************************************************)
(* solver.cpp: Solver::initPruningTables. Each table is filled by the same *)
(* breadth-first loop: entry 0 is 0, and pass `depth` gives depth + 1 to   *)
(* every unvisited in-range successor of an entry holding `depth`.         *)
(***************************************************************************)
TableSize(kind) ==
    CASE kind = "twist"    -> N_TWIST
      [] kind = "flip"     -> N_FLIP
      [] kind = "slice"    -> N_SLICE
      [] kind = "URFtoDLF" -> N_PERM
      [] kind = "URtoBR"   -> N_PERM
      [] kind = "parity"   -> N_PARITY

TableMove(kind, i, j) ==
    CASE kind = "twist"    -> twistMove(i, j)
      [] kind = "flip"     -> flipMove(i, j)
      [] kind = "slice"    -> sliceMove(i, j)
      [] kind = "URFtoDLF" -> URFtoDLFMove(i, j)
      [] kind = "URtoBR"   -> URtoBRMove(i, j)
      [] kind = "parity"   -> parityMove(i, j)

\* the moves the fill loop of the table follows
TableMoves(kind) ==
    IF kind \in {"twist", "flip", "slice"} THEN Moves ELSE {j \in Moves : isPhase2Move(j)}

RECURSIVE PrunLevels(_, _, _, _)
RECURSIVE PrunGrow(_, _, _, _)
\* levels[d + 1] is the set of entries holding d when the loops end: the entries in
\* range reached by one move from an entry holding d - 1 and not written before
PrunLevels(kind, frontier, visited, levels) ==
    PrunGrow(kind,
             {x \in {TableMove(kind, i, j) : i \in frontier, j \in TableMoves(kind)} :
                 x < TableSize(kind)} \ visited,
             visited, levels)

PrunGrow(kind, new, visited, levels) ==
    IF new = {} THEN levels
    ELSE PrunLevels(kind, new, visited \cup new, Append(levels, new))

initPruningTables(kind) == PrunLevels(kind, {0}, {0}, <<{0}>>)

twistPrunLevels == initPruningTables("twist")
flipPrunLevels == initPruningTables("flip")
slicePrunLevels == initPruningTables("slice")
parityPrunLevels == initPruningTables("parity")
URFtoDLFPrunLevels == initPruningTables("URFtoDLF")
URtoBRPrunLevels == initPruningTables("URtoBR")

\* the table entry for x: its depth, or -1 (not visited)
PrunAt(levels, x) ==
    IF \E d \in 1 .. Len(levels) : x \in levels[d]
    THEN (CHOOSE d \in 1 .. Len(levels) : x \in levels[d]) - 1
    ELSE -1

twistPrun(x) == PrunAt(twistPrunLevels, x)
flipPrun(x) == PrunAt(flipPrunLevels, x)
slicePrun(x) == PrunAt(slicePrunLevels, x)
parityPrun(x) == PrunAt(parityPrunLevels, x)
URFtoDLFPrun(x) == PrunAt(URFtoDLFPrunLevels, x)
URtoBRPrun(x) == PrunAt(URtoBRPrunLevels, x)

(***************************************************************************)
(* solver.cpp: the static pruning tables as storage that initPruningTables *)
(* writes. A table is kept as the function from the indices whose entry is *)
(* not -1 to the entry.                                                    *)
(***************************************************************************)
\* the do-while loops of initPruningTables in the order they run
KindOrder == <<"twist", "flip", "slice", "URFtoDLF", "URtoBR", "parity">>

\* table[x] as the code reads it
Entry(table, x) == IF x \in DOMAIN table THEN table[x] ELSE -1

\* one turn of a do-while loop: every entry still -1 that is an in-range successor of an
\* entry holding depth is set to depth + 1
PrunPass(kind, table, d) ==
    LET src == {i \in DOMAIN table : table[i] = d}
        new == {x \in {TableMove(kind, i, j) : i \in src, j \in TableMoves(kind)} :
                   x < TableSize(kind) /\ x \notin DOMAIN table}
    IN  [x \in DOMAIN table \cup new |-> IF x \in new THEN d + 1 ELSE table[x]]

\* the table the loops leave behind, from the levels they fill
BuiltTable(levels) ==
    [x \in UNION {levels[d] : d \in 1 .. Len(levels)} |-> PrunAt(levels, x)]

\* the six tables once a Solver has been constructed
BuiltPrun ==
    [kind \in {"twist", "flip", "slice", "URFtoDLF", "URtoBR", "parity"} |->
        CASE kind = "twist"    -> BuiltTable(twistPrunLevels)
          [] kind = "flip"     -> BuiltTable(flipPrunLevels)
          [] kind = "slice"    -> BuiltTable(slicePrunLevels)
          [] kind = "URFtoDLF" -> BuiltTable(URFtoDLFPrunLevels)
          [] kind = "URtoBR"   -> BuiltTable(URtoBRPrunLevels)
          [] kind = "parity"   -> BuiltTable(parityPrunLevels)]

Max3(a, b, c) ==
    LET ab == IF a >= b THEN a ELSE b
    IN  IF ab >= c THEN ab ELSE c

(***************************************************************************)
(* solver.cpp: the two depth-limited searches. The result is               *)
(* [found, solution]: the return value and the move stack at return.       *)
(***************************************************************************)
RECURSIVE searchPhase1(_, _, _, _, _)
RECURSIVE TryMoves1(_, _, _, _, _, _)

searchPhase1(flip, twist, slice, d, sol) ==
    IF d = 0
    THEN [found |-> (flip = 0 /\ twist = 0 /\ slice = 0), solution |-> sol]
    ELSE IF Max3(flipPrun(flip), twistPrun(twist), slicePrun(slice)) > d
    THEN [found |-> FALSE, solution |-> sol]
    ELSE TryMoves1(flip, twist, slice, d, sol, 0)

TryMoves1(flip, twist, slice, d, sol, moveIdx) ==
    IF moveIdx >= 18 THEN [found |-> FALSE, solution |-> sol]
    ELSE IF sol # <<>> /\ ~isMovePairAllowed(sol[Len(sol)], moveIdx)
    THEN TryMoves1(flip, twist, slice, d, sol, moveIdx + 1)
    ELSE LET newFlip  == flipMove(flip, moveIdx)
             newTwist == twistMove(twist, moveIdx)
             newSlice == sliceMove(slice, moveIdx)
         IN  IF newFlip >= N_FLIP \/ newTwist >= N_TWIST \/ newSlice >= N_SLICE
             THEN TryMoves1(flip, twist, slice, d, sol, moveIdx + 1)
             ELSE LET r == searchPhase1(newFlip, newTwist, newSlice, d - 1,
                                        Append(sol, moveIdx))
                  IN  IF r.found THEN r
                      ELSE TryMoves1(flip, twist, slice, d, sol, moveIdx + 1)

\* solver.cpp line 157: the contents of `solution` after each push_back searchPhase1
\* makes during one call, whether or not the move is popped again
RECURSIVE TriedPhase1(_, _, _, _, _)
RECURSIVE TriedFrom1(_, _, _, _, _, _)

TriedPhase1(flip, twist, slice, d, sol) ==
    IF d = 0 THEN {}
    ELSE IF Max3(flipPrun(flip), twistPrun(twist), slicePrun(slice)) > d THEN {}
    ELSE TriedFrom1(flip, twist, slice, d, sol, 0)

TriedFrom1(flip, twist, slice, d, sol, moveIdx) ==
    IF moveIdx >= 18 THEN {}
    ELSE IF sol # <<>> /\ ~isMovePairAllowed(sol[Len(sol)], moveIdx)
    THEN TriedFrom1(flip, twist, slice, d, sol, moveIdx + 1)
    ELSE IF \/ flipMove(flip, moveIdx) >= N_FLIP
            \/ twistMove(twist, moveIdx) >= N_TWIST
            \/ sliceMove(slice, moveIdx) >= N_SLICE
    THEN TriedFrom1(flip, twist, slice, d, sol, moveIdx + 1)
    ELSE {Append(sol, moveIdx)}
         \cup TriedPhase1(flipMove(flip, moveIdx), twistMove(twist, moveIdx),
                          sliceMove(slice, moveIdx), d - 1, Append(sol, moveIdx))
         \cup (IF searchPhase1(flipMove(flip, moveIdx), twistMove(twist, moveIdx),
                               sliceMove(slice, moveIdx), d - 1, Append(sol, moveIdx)).found
               THEN {}
               ELSE TriedFrom1(flip, twist, slice, d, sol, moveIdx + 1))

RECURSIVE searchPhase2(_, _, _, _, _)
RECURSIVE TryMoves2(_, _, _, _, _, _)

searchPhase2(parity, URFtoDLF, URtoBR, d, sol) ==
    IF d = 0
    THEN [found |-> (parity = 0 /\ URFtoDLF = 0 /\ URtoBR = 0), solution |-> sol]
    ELSE IF Max3(parityPrun(parity), URFtoDLFPrun(URFtoDLF), URtoBRPrun(URtoBR)) > d
    THEN [found |-> FALSE, solution |-> sol]
    ELSE TryMoves2(parity, URFtoDLF, URtoBR, d, sol, 0)

TryMoves2(parity, URFtoDLF, URtoBR, d, sol, moveIdx) ==
    IF moveIdx >= 18 THEN [found |-> FALSE, solution |-> sol]
    ELSE IF ~isPhase2Move(moveIdx)
    THEN TryMoves2(parity, URFtoDLF, URtoBR, d, sol, moveIdx + 1)
    ELSE IF sol # <<>> /\ ~isMovePairAllowed(sol[Len(sol)], moveIdx)
    THEN TryMoves2(parity, URFtoDLF, URtoBR, d, sol, moveIdx + 1)
    ELSE LET newParity   == parityMove(parity, moveIdx)
             newURFtoDLF == URFtoDLFMove(URFtoDLF, moveIdx)
             newURtoBR   == URtoBRMove(URtoBR, moveIdx)
         IN  IF newParity >= N_PARITY \/ newURFtoDLF >= N_PERM \/ newURtoBR >= N_PERM
             THEN TryMoves2(parity, URFtoDLF, URtoBR, d, sol, moveIdx + 1)
             ELSE LET r == searchPhase2(newParity, newURFtoDLF, newURtoBR, d - 1,
                                        Append(sol, moveIdx))
                  IN  IF r.found THEN r
                      ELSE TryMoves2(parity, URFtoDLF, URtoBR, d, sol, moveIdx + 1)

\* solver.cpp line 205: the moves searchPhase2 pushes onto `solution` during one call,
\* whether or not they are popped again
RECURSIVE PushedPhase2(_, _, _, _, _)
RECURSIVE PushedFrom2(_, _, _, _, _, _)

PushedPhase2(parity, URFtoDLF, URtoBR, d, sol) ==
    IF d = 0 THEN {}
    ELSE IF Max3(parityPrun(parity), URFtoDLFPrun(URFtoDLF), URtoBRPrun(URtoBR)) > d THEN {}
    ELSE PushedFrom2(parity, URFtoDLF, URtoBR, d, sol, 0)

PushedFrom2(parity, URFtoDLF, URtoBR, d, sol, moveIdx) ==
    IF moveIdx >= 18 THEN {}
    ELSE IF ~isPhase2Move(moveIdx)
    THEN PushedFrom2(parity, URFtoDLF, URtoBR, d, sol, moveIdx + 1)
    ELSE IF sol # <<>> /\ ~isMovePairAllowed(sol[Len(sol)], moveIdx)
    THEN PushedFrom2(parity, URFtoDLF, URtoBR, d, sol, moveIdx + 1)
    ELSE IF \/ parityMove(parity, moveIdx) >= N_PARITY
            \/ URFtoDLFMove(URFtoDLF, moveIdx) >= N_PERM
            \/ URtoBRMove(URtoBR, moveIdx) >= N_PERM
    THEN PushedFrom2(parity, URFtoDLF, URtoBR, d, sol, moveIdx + 1)
    ELSE {moveIdx}
         \cup PushedPhase2(parityMove(parity, moveIdx), URFtoDLFMove(URFtoDLF, moveIdx),
                           URtoBRMove(URtoBR, moveIdx), d - 1, Append(sol, moveIdx))
         \cup (IF searchPhase2(parityMove(parity, moveIdx), URFtoDLFMove(URFtoDLF, moveIdx),
                               URtoBRMove(URtoBR, moveIdx), d - 1,
                               Append(sol, moveIdx)).found
               THEN {}
               ELSE PushedFrom2(parity, URFtoDLF, URtoBR, d, sol, moveIdx + 1))

(***************************************************************************)
(* Sample facelet strings.                                                 *)
(***************************************************************************)
Rep(ch, n) == [q \in 1 .. n |-> ch]

\* UUUUUUUUURRRRRRRRRFFFFFFFFFDDDDDDDDDLLLLLLLLLBBBBBBBBB
SolvedFacelets ==
    Rep("U", 9) \o Rep("R", 9) \o Rep("F", 9) \o Rep("D", 9) \o Rep("L", 9) \o Rep("B", 9)

\* s with the character at 0-based position p replaced by ch
Replace(s, p, ch) == [s EXCEPT ![p + 1] = ch]

\* the solved cube after the face turn R, and after the face turn U
RTurnFacelets ==
    <<"U", "U", "F", "U", "U", "F", "U", "U", "F">> \o Rep("R", 9)
    \o <<"F", "F", "D", "F", "F", "D", "F", "F", "D">>
    \o <<"D", "D", "B", "D", "D", "B", "D", "D", "B">> \o Rep("L", 9)
    \o <<"U", "B", "B", "U", "B", "B", "U", "B", "B">>

UTurnFacelets ==
    Rep("U", 9) \o Rep("B", 3) \o Rep("R", 6) \o Rep("R", 3) \o Rep("F", 6) \o Rep("D", 9)
    \o Rep("F", 3) \o Rep("L", 6) \o Rep("L", 3) \o Rep("B", 6)

\* facelet strings of cubes reached from the solved cube by face turns
LegalFacelets == {SolvedFacelets, RTurnFacelets, UTurnFacelets}

\* the solved cube with the URF corner twisted in place (stickers 8, 9, 20 rotated)
TwistedCornerFacelets == Replace(Replace(Replace(SolvedFacelets, 8, "R"), 9, "F"), 20, "U")

\* the solved cube with the UR edge flipped in place (stickers 5 and 10 exchanged)
FlippedEdgeFacelets == Replace(Replace(SolvedFacelets, 5, "R"), 10, "U")

\* the solved cube with the UR and UF edges exchanged
SwappedEdgesFacelets == Replace(Replace(SolvedFacelets, 10, "F"), 19, "R")

\* the solved string with stickers 8 and 26 exchanged: slots URF and DFR match no corner
UnmatchedCornersFacelets == Replace(Replace(SolvedFacelets, 8, "F"), 26, "U")

\* nine of each letter; corner slots 0..6 read DRB DBL DLF DFR UBR ULB UFL untwisted,
\* edge slots 0..10 read DB DL DF DR DR UB UB UL UF UR UR unflipped, corner slot 7 (FFF)
\* and edge slot 11 (LL) match no cubie
DescendingFacelets ==
    <<"D", "D", "D", "D", "R", "D", "D", "D", "D">>
    \o <<"R", "B", "R", "F", "R", "L", "R", "R", "F">>
    \o <<"B", "L", "B", "U", "F", "U", "B", "B", "B">>
    \o <<"U", "U", "U", "U", "L", "D", "U", "U", "F">>
    \o <<"L", "F", "L", "U", "B", "R", "L", "B", "L">>
    \o <<"F", "R", "F", "L", "B", "R", "F", "L", "F">>

\* the strings solve is called with
Inputs ==
    LegalFacelets
    \cup {TwistedCornerFacelets, FlippedEdgeFacelets, SwappedEdgesFacelets,
          UnmatchedCornersFacelets, DescendingFacelets}
    \cup {Replace(SolvedFacelets, p, ch) : p \in 0 .. 53, ch \in LetterSet \cup {"X"}}
    \cup {SubSeq(SolvedFacelets, 1, n) : n \in {0, 53}}
    \cup {SolvedFacelets \o <<"B">>}


(***************************************************************************)
(* SpecCube: a Cube object, constructed by Cube(), under applyMove and     *)
(* toString.                                                               *)
(***************************************************************************)
CubeObj == [cp |-> cp, co |-> co, ep |-> ep, eo |-> eo]

SolveIdle ==
    /\ state = <<>>
    /\ pc = "idle"
    /\ cube = SolvedCube
    /\ phase1Cube = SolvedCube
    /\ depth = 0
    /\ phase1Solution = <<>>
    /\ phase2Solution = <<>>
    /\ solution = <<>>
    /\ outcome = "none"
    /\ searchCalls = 0
    /\ coordsComputed = FALSE
    /\ solutionProduced = FALSE

OptIdle ==
    /\ optIn = <<>>
    /\ optOut = <<>>
    /\ optPc = "idle"
    /\ rendered = <<>>

\* one Solver has been constructed; no caller is inside kociemba_solve
TablesIdle ==
    /\ prun = BuiltPrun
    /\ ctorPc = "idle"
    /\ ctorKind = 1
    /\ ctorDepth = 0
    /\ seen = <<>>

\* custom_cube_solver.cpp lines 9-18: CubeState(), every sticker of face f holds f
CubeState == [q \in 0 .. 53 |-> q \div 9]

InverseIdle ==
    /\ stickers = CubeState
    /\ invScramble = <<>>
    /\ invSolution = <<>>
    /\ invPc = "scramble"
    /\ invApplied = 0

ScrambleIdle ==
    /\ scramble = <<>>
    /\ scrPc = "input"
    /\ scrValid = FALSE

WalkIdle ==
    /\ wKind = "twist"
    /\ wStart = 0
    /\ wCur = 0
    /\ wPath = <<>>
    /\ wPushed = <<>>
    /\ wTried = <<>>

CubeIdle ==
    /\ cp = SolvedCube.cp
    /\ co = SolvedCube.co
    /\ ep = SolvedCube.ep
    /\ eo = SolvedCube.eo
    /\ nMoves = 0
    /\ text = <<>>
    /\ ctorArg = <<>>

InitCube ==
    /\ CubeIdle
    /\ SolveIdle
    /\ OptIdle
    /\ TablesIdle
    /\ WalkIdle
    /\ ScrambleIdle
    /\ InverseIdle

\* cube.cpp lines 47-52: a Cube constructed from the string s in place of the
\* default-constructed one (a string isValidState refuses throws: no object exists)
CubeFromString(s) ==
    /\ ctorArg = <<>> /\ nMoves = 0 /\ text = <<>>
    /\ isValidState(s)
    /\ \E g \in Garbage :
          LET c == initFromString(s, g)
          IN  /\ cp' = c.cp
              /\ co' = c.co
              /\ ep' = c.ep
              /\ eo' = c.eo
    /\ ctorArg' = s
    /\ UNCHANGED <<nMoves, text, solveVars, optVars, tableVars, walkVars, scrVars, invVars>>

CubeApplyMove(m) ==
    /\ nMoves < MaxMoves
    /\ LET c == applyMove(CubeObj, m)
       IN  /\ cp' = c.cp
           /\ co' = c.co
           /\ ep' = c.ep
           /\ eo' = c.eo
    /\ nMoves' = nMoves + 1
    /\ UNCHANGED <<text, ctorArg, solveVars, optVars, tableVars, walkVars, scrVars, invVars>>

CubeToString ==
    /\ text' = toString(CubeObj)
    /\ UNCHANGED <<cp, co, ep, eo, nMoves, ctorArg, solveVars, optVars, tableVars, walkVars, scrVars, invVars>>

NextCube ==
    \/ \E s \in LegalFacelets : CubeFromString(s)
    \/ \E m \in Moves : CubeApplyMove(m)
    \/ CubeToString

SpecCube == InitCube /\ [][NextCube]_vars

\* number of pairs i < j with p[i] > p[j], p a function on 0..n-1
Inversions(p, n) ==
    Cardinality({q \in (0 .. n - 1) \X (0 .. n - 1) : q[1] < q[2] /\ p[q[1]] > p[q[2]]})

\* C5: after any sequence of applyMove calls from the solved Cube the sum of
\* co[0..7] is divisible by 3.
C5_TwistSumDivisibleBy3 == ctorArg = <<>> => SumTo(co, 8) % 3 = 0

\* C6: after any sequence of applyMove calls from the solved Cube the sum of
\* eo[0..11] is even.
C6_FlipSumEven == ctorArg = <<>> => SumTo(eo, 12) % 2 = 0

\* C7: after any sequence of applyMove calls from the solved Cube, cp and ep have
\* the same parity of inversions.
C7_SameParity == ctorArg = <<>> => Inversions(cp, 8) % 2 = Inversions(ep, 12) % 2

\* C8: the string toString writes for a Cube no move was applied to is the string the
\* Cube was constructed from, and the solved string for Cube().
C8_DecodeEncodeRoundTrip ==
    (nMoves = 0 /\ text # <<>>) =>
        text = (IF ctorArg = <<>> THEN SolvedFacelets ELSE ctorArg)

\* C16: applyMove(m) composes the state with the move: the new cp[i] is the old
\* cp[cornerMove[m][i]], the new co[i] is (old co[cornerMove[m][i]] + cornerOrient[m][i])
\* mod 3, and likewise for ep and eo (mod 2) with edgeMove and edgeOrient.
C16_ApplyMoveComposes ==
    [][\A m \in Moves :
          CubeApplyMove(m) =>
             /\ cp' = [i \in Corners |-> cp[cornerMove[m][i]]]
             /\ co' = [i \in Corners |-> (co[cornerMove[m][i]] + cornerOrient[m][i]) % 3]
             /\ ep' = [i \in Edges |-> ep[edgeMove[m][i]]]
             /\ eo' = [i \in Edges |-> (eo[edgeMove[m][i]] + edgeOrient[m][i]) % 2]]_vars

\* the inverse of a move: same face, clockwise and counter-clockwise exchanged
InverseMove(m) == 3 * (m \div 3) + (2 - (m % 3))

\* c after n applications of move m
RECURSIVE Repeat(_, _, _)
Repeat(c, m, n) == IF n = 0 THEN c ELSE Repeat(applyMove(c, m), m, n - 1)

\* C17: in every state reachable from the solved Cube, applyMove(m) followed by
\* applyMove of the inverse move restores cp, co, ep and eo, and four clockwise quarter
\* turns of one face restore them.
C17_InverseRestores ==
    ctorArg = <<>> =>
        /\ \A m \in Moves : applyMove(applyMove(CubeObj, m), InverseMove(m)) = CubeObj
        /\ \A f \in 0 .. 5 : Repeat(CubeObj, 3 * f, 4) = CubeObj

\* C18: in every state reachable from the solved Cube by applyMove calls, cp holds each
\* of the 8 corner cubies exactly once and ep each of the 12 edge cubies exactly once.
C18_PermutationsPreserved ==
    ctorArg = <<>> =>
        /\ {cp[i] : i \in Corners} = Corners
        /\ {ep[i] : i \in Edges} = Edges

\* C19: in every state reachable from the solved Cube and for every face, the half turn
\* gives the same cp, co, ep, eo as two clockwise quarter turns, and the
\* counter-clockwise turn the same as three clockwise quarter turns.
C19_DerivedTurnsArePowers ==
    ctorArg = <<>> =>
        \A f \in 0 .. 5 :
            /\ applyMove(CubeObj, 3 * f + 1) = Repeat(CubeObj, 3 * f, 2)
            /\ applyMove(CubeObj, 3 * f + 2) = Repeat(CubeObj, 3 * f, 3)

\* C20: in every state reachable from the solved Cube and for every move m, the phase-1
\* move tables give the coordinates of the cube after applyMove(m):
\* twistMove[getTwist()][m], flipMove[getFlip()][m] and sliceMove[getSlice()][m] are
\* getTwist(), getFlip() and getSlice() of the moved cube.
C20_Phase1TablesFollowCube ==
    ctorArg = <<>> =>
        \A m \in Moves :
            /\ twistMove(getTwist(CubeObj), m) = getTwist(applyMove(CubeObj, m))
            /\ flipMove(getFlip(CubeObj), m) = getFlip(applyMove(CubeObj, m))
            /\ sliceMove(getSlice(CubeObj), m) = getSlice(applyMove(CubeObj, m))

\* C21: the solved Cube, Cube(), has every search coordinate equal to 0: getTwist,
\* getFlip, getSlice, getParity, getURFtoDLF and getURtoBR all return 0.
C21_SolvedCoordinatesZero ==
    (ctorArg = <<>> /\ nMoves = 0) =>
        /\ getTwist(CubeObj) = 0
        /\ getFlip(CubeObj) = 0
        /\ getSlice(CubeObj) = 0
        /\ getParity(CubeObj) = 0
        /\ getURFtoDLF(CubeObj) = 0
        /\ getURtoBR(CubeObj) = 0

\* C23: every cube state the coordinates are computed on (the decoded input and every
\* state reached by moves) has each coordinate inside its table's domain.
C23_CoordinatesInDomain ==
    /\ getTwist(CubeObj) <= N_TWIST - 1
    /\ getFlip(CubeObj) <= N_FLIP - 1
    /\ getSlice(CubeObj) <= N_SLICE - 1
    /\ getURFtoDLF(CubeObj) <= N_PERM - 1
    /\ getURtoBR(CubeObj) <= N_PERM - 1

(***************************************************************************)
(* SpecSolve: one call of Solver::solve(state) on a constructed Solver     *)
(* (initTables has run, so the `initialized` test of line 30 passes), with *)
(* setMaxDepth(MaxDepthPhase1, MaxDepthPhase2).                            *)
(***************************************************************************)
RECURSIVE ApplyMoves(_, _, _)
\* the cube c after applyMove of moves[i], moves[i+1], ...
ApplyMoves(c, moves, i) ==
    IF i > Len(moves) THEN c ELSE ApplyMoves(applyMove(c, moves[i]), moves, i + 1)

InitSolve ==
    /\ CubeIdle
    /\ OptIdle
    /\ TablesIdle
    /\ WalkIdle
    /\ ScrambleIdle
    /\ InverseIdle
    /\ state \in Inputs
    /\ pc = "construct"
    /\ cube = SolvedCube
    /\ phase1Cube = SolvedCube
    /\ depth = 0
    /\ phase1Solution = <<>>
    /\ phase2Solution = <<>>
    /\ solution = <<>>
    /\ outcome = "none"
    /\ searchCalls = 0
    /\ coordsComputed = FALSE
    /\ solutionProduced = FALSE

Finish(how) ==
    /\ outcome' = how
    /\ pc' = "done"

\* solver.cpp line 35, cube.cpp lines 47-52: Cube cube(state)
Construct ==
    /\ pc = "construct"
    /\ IF ~isValidState(state)
       THEN /\ Finish("Invalid cube state")
            /\ UNCHANGED cube
       ELSE /\ \E g \in Garbage : cube' = initFromString(state, g)
            /\ pc' = "phase1_coords"
            /\ UNCHANGED outcome
    /\ UNCHANGED <<phase1Cube, depth, phase1Solution, phase2Solution, solution,
                   searchCalls, coordsComputed, state, cubeVars, optVars, tableVars, walkVars, scrVars, invVars>>
    /\ UNCHANGED solutionProduced

\* solver.cpp lines 82-90: phase1 reads and checks the coordinates
Phase1Coords ==
    /\ pc = "phase1_coords"
    /\ coordsComputed' = TRUE
    /\ IF getFlip(cube) >= N_FLIP \/ getTwist(cube) >= N_TWIST \/ getSlice(cube) >= N_SLICE
       THEN /\ Finish("Phase 1 failed: Invalid phase 1 coordinates")
            /\ UNCHANGED depth
       ELSE /\ pc' = "phase1"
            /\ depth' = 0
            /\ UNCHANGED outcome
    /\ UNCHANGED <<cube, phase1Cube, phase1Solution, phase2Solution, solution,
                   searchCalls, state, cubeVars, optVars, tableVars, walkVars, scrVars, invVars>>
    /\ UNCHANGED solutionProduced

\* solver.cpp lines 93-99 and 48-52: one turn of phase1's loop over depth; on success
\* solve applies the moves to its copy of the cube
Phase1Depth ==
    /\ pc = "phase1"
    /\ IF depth <= MaxDepthPhase1
       THEN LET r == searchPhase1(getFlip(cube), getTwist(cube), getSlice(cube), depth, <<>>)
            IN  /\ searchCalls' = searchCalls + 1
                /\ IF r.found
                   THEN /\ phase1Solution' = r.solution
                        /\ phase1Cube' = ApplyMoves(cube, r.solution, 1)
                        /\ pc' = "phase2_coords"
                        /\ UNCHANGED <<depth, outcome>>
                   ELSE /\ depth' = depth + 1
                        /\ UNCHANGED <<phase1Solution, phase1Cube, pc, outcome>>
       ELSE /\ Finish("Phase 1 failed: No phase 1 solution found within depth limit")
            /\ UNCHANGED <<depth, phase1Solution, phase1Cube, searchCalls>>
    /\ UNCHANGED <<cube, phase2Solution, solution, coordsComputed, state, cubeVars, optVars, tableVars, walkVars, scrVars, invVars>>
    /\ UNCHANGED solutionProduced

\* solver.cpp lines 105-113: phase2 reads and checks the coordinates
Phase2Coords ==
    /\ pc = "phase2_coords"
    /\ IF    getParity(phase1Cube) >= N_PARITY \/ getURFtoDLF(phase1Cube) >= N_PERM
          \/ getURtoBR(phase1Cube) >= N_PERM
       THEN /\ Finish("Phase 2 failed: Invalid phase 2 coordinates")
            /\ UNCHANGED depth
       ELSE /\ pc' = "phase2"
            /\ depth' = 0
            /\ UNCHANGED outcome
    /\ UNCHANGED <<cube, phase1Cube, phase1Solution, phase2Solution, solution,
                   searchCalls, coordsComputed, state, cubeVars, optVars, tableVars, walkVars, scrVars, invVars>>
    /\ UNCHANGED solutionProduced

\* solver.cpp lines 116-122: one turn of phase2's loop over depth
Phase2Depth ==
    /\ pc = "phase2"
    /\ IF depth <= MaxDepthPhase2
       THEN LET r == searchPhase2(getParity(phase1Cube), getURFtoDLF(phase1Cube),
                                  getURtoBR(phase1Cube), depth, <<>>)
            IN  /\ searchCalls' = searchCalls + 1
                /\ IF r.found
                   THEN /\ phase2Solution' = r.solution
                        /\ pc' = "combine"
                        /\ UNCHANGED <<depth, outcome>>
                   ELSE /\ depth' = depth + 1
                        /\ UNCHANGED <<phase2Solution, pc, outcome>>
       ELSE /\ Finish("Phase 2 failed: No phase 2 solution found within depth limit")
            /\ UNCHANGED <<depth, phase2Solution, searchCalls>>
    /\ UNCHANGED <<cube, phase1Cube, phase1Solution, solution, coordsComputed, state,
                   cubeVars, optVars, tableVars, walkVars, scrVars, invVars>>
    /\ UNCHANGED solutionProduced

\* solver.cpp lines 62-71: the two lists are joined, then the clock is read
Combine ==
    /\ pc = "combine"
    /\ solution' = phase1Solution \o phase2Solution
    /\ solutionProduced' = TRUE
    /\ \E timedOut \in BOOLEAN :
          IF timedOut
          THEN Finish("Solver timed out")
          ELSE /\ pc' = "optimize"
               /\ UNCHANGED outcome
    /\ UNCHANGED <<cube, phase1Cube, depth, phase1Solution, phase2Solution, searchCalls,
                   coordsComputed, state, cubeVars, optVars, tableVars, walkVars, scrVars, invVars>>

\* solver.cpp lines 73-76: optimizeSolution(solution); return solution. A read outside
\* the vector is undefined: the call does not return (the process is killed, or the
\* loop runs on over foreign memory).
Optimize ==
    /\ pc = "optimize"
    /\ LET r == optimizeSolution(solution)
       IN  IF r.kind = "returned"
           THEN /\ solution' = r.list
                /\ Finish("moves")
           ELSE /\ solution' = r.list
                /\ \E how \in {"crashed", "no return"} : Finish(how)
    /\ UNCHANGED <<cube, phase1Cube, depth, phase1Solution, phase2Solution, searchCalls,
                   coordsComputed, state, cubeVars, optVars, tableVars, walkVars, scrVars, invVars>>
    /\ UNCHANGED solutionProduced

C2_SolvedStringEmptySolution ==
    (pc = "done" /\ state = SolvedFacelets) =>
        (outcome = "moves" /\ solution = <<>> /\ searchCalls = 2)

\* strings with nine of each letter, every slot matching a cubie, whose cubies break the
\* twist sum, the flip sum, or the permutation parity
InvariantBreakingFacelets ==
    {TwistedCornerFacelets, FlippedEdgeFacelets, SwappedEdgesFacelets}

\* C3: a well-formed string whose cubies violate the twist-sum, flip-sum or parity
\* invariant is rejected with an error and no phase-1 search step is run for it.
C3_InvariantBreakingRejected ==
    state \in InvariantBreakingFacelets =>
        /\ searchCalls = 0
        /\ pc = "done" => outcome = "Invalid cube state"

\* the string is not 54 long, or holds a character outside URFDLB, or some face letter
\* does not occur exactly nine times
Malformed(s) ==
    \/ Len(s) # 54
    \/ \E q \in 1 .. Len(s) : s[q] \notin {"U", "R", "F", "D", "L", "B"}
    \/ \E ch \in {"U", "R", "F", "D", "L", "B"} : Count(s, ch) # 9

\* C4: a malformed string is rejected by the Cube constructor with "Invalid cube
\* state" before any coordinate is computed or any search call is made, and every
\* string the constructor accepts has each of the six letters exactly nine times.
C4_MalformedRejectedFirst ==
    pc # "construct" =>
        /\ Malformed(state) =>
              /\ pc = "done"
              /\ outcome = "Invalid cube state"
              /\ ~coordsComputed
              /\ searchCalls = 0
        /\ outcome # "Invalid cube state" =>
              \A ch \in {"U", "R", "F", "D", "L", "B"} : Count(state, ch) = 9

\* C4 happens: a string of 54 valid letters with wrong counts has been refused
C4_Witness ==
    /\ pc = "done"
    /\ outcome = "Invalid cube state"
    /\ Len(state) = 54
    /\ \A q \in 1 .. 54 : state[q] \in LetterSet
    /\ Count(state, "U") = 8

\* C11: solve reports the timeout error only when no solution has been produced: once
\* both phases have completed and the joined move list exists, solve does not end with
\* "Solver timed out".
C11_TimeoutOnlyWithoutSolution ==
    (pc = "done" /\ outcome = "Solver timed out") => ~solutionProduced

\* C24: after phase 1 has found a reduction, a failure of phase 2 on it (coordinates out
\* of range, or no phase-2 solution within the depth limit) does not end the solve: the
\* engine returns to phase 1 for further reductions.
C24_Phase2FailureDoesNotEndSolve ==
    [][(pc \in {"phase2_coords", "phase2"}) =>
          ~(pc' = "done" /\ outcome' \in
                {"Phase 2 failed: Invalid phase 2 coordinates",
                 "Phase 2 failed: No phase 2 solution found within depth limit"})]_vars

NextSolve ==
    \/ Construct
    \/ Phase1Coords
    \/ Phase1Depth
    \/ Phase2Coords
    \/ Phase2Depth
    \/ Combine
    \/ Optimize

SpecSolve == InitSolve /\ [][NextSolve]_vars

\* solve is sequential code: a call that can take a step takes it
SpecSolveFair == SpecSolve /\ WF_vars(NextSolve)

\* C27: for a 54-character string with valid letters and nine of each, in which some
\* corner slot or edge slot matches no cubie, constructing the Cube ends with an error
\* instead of producing a cube state (no cp, co, ep, eo entry is left unassigned).
C27_UnmatchedSlotFailsConstruction ==
    [][(pc = "construct" /\ ~Malformed(state) /\ ~AllSlotsMatched(state)) =>
          (pc' = "done" /\ outcome' # "none")]_vars

\* C26: phase1 runs the depth-limited search for the thresholds 0, 1, ..., maxDepthPhase1
\* in increasing order, ends with the "no phase 1 solution" error without running phase 2
\* when none succeeds, and every call of solve eventually ends with a move list or an
\* error.
C26_SolveEndsWithListOrError ==
    /\ [][(pc = "phase1" /\ pc' = "phase1") => depth' = depth + 1]_vars
    /\ [][(pc = "phase1" /\ pc' = "done") => (depth > MaxDepthPhase1 /\ phase2Solution = <<>>)]_vars
    /\ <>(pc = "done" /\ outcome \notin {"none", "crashed", "no return"})

(***************************************************************************)
(* SpecOptimize: Solver::optimizeSolution called on a move list, and the   *)
(* list it returns rendered the way kociemba_solve renders a solution.     *)
(***************************************************************************)
\* the move lists of length 0 .. MaxListLen
MoveLists == UNION {[1 .. n -> Moves] : n \in 0 .. MaxListLen}

RECURSIVE JoinTokens(_, _)
\* kociemba_wrapper.cpp lines 13-17: tokens[1] " " tokens[2] " " ... up to tokens[n]
JoinTokens(tokens, n) ==
    IF n = 0 THEN <<>>
    ELSE IF n = 1 THEN tokens[1]
    ELSE JoinTokens(tokens, n - 1) \o <<" ">> \o tokens[n]

\* the string kociemba_solve builds for the move list l
RenderSolution(l) == JoinTokens([i \in 1 .. Len(l) |-> moveToString(l[i])], Len(l))

InitOptimize ==
    /\ CubeIdle
    /\ SolveIdle
    /\ TablesIdle
    /\ WalkIdle
    /\ ScrambleIdle
    /\ InverseIdle
    /\ optIn \in MoveLists
    /\ optOut = <<>>
    /\ optPc = "call"
    /\ rendered = <<>>

\* solver.cpp lines 480-505. A read outside the vector is undefined: the call does
\* not return.
OptimizeCall ==
    /\ optPc = "call"
    /\ LET r == optimizeSolution(optIn)
       IN  /\ optOut' = r.list
           /\ IF r.kind = "returned"
              THEN optPc' = "returned"
              ELSE optPc' \in {"crashed", "no return"}
    /\ UNCHANGED <<optIn, rendered, cubeVars, solveVars, tableVars, walkVars, scrVars, invVars>>

\* kociemba_wrapper.cpp lines 12-18
Render ==
    /\ optPc = "returned"
    /\ rendered' = RenderSolution(optOut)
    /\ optPc' = "rendered"
    /\ UNCHANGED <<optIn, optOut, cubeVars, solveVars, tableVars, walkVars, scrVars, invVars>>

\* C9: whenever optimizeSolution returns, its list has no two adjacent moves on the
\* same face.
C9_NoAdjacentSameFace ==
    optPc \in {"returned", "rendered"} =>
        \A i \in 1 .. Len(optOut) - 1 : optOut[i] \div 3 # optOut[i + 1] \div 3

\* C9 happens: a list whose last two moves share a face came back with two moves
C9_Witness ==
    /\ optPc = "returned"
    /\ Len(optIn) = 3
    /\ optIn[2] \div 3 = optIn[3] \div 3
    /\ Len(optOut) = 2

\* the token the notation gives a move: the face letter, then nothing, "2" or "'"
NotationToken(move) ==
    <<At0(<<"U", "R", "F", "D", "L", "B">>, move \div 3)>>
    \o At0(<< <<>>, <<"2">>, <<"'">> >>, move % 3)

\* C10: every token of a rendered solution is the face letter followed by nothing
\* (clockwise quarter turn), "2" (half turn) or "'" (counter-clockwise quarter turn).
C10_TokenGrammar ==
    optPc = "rendered" =>
        rendered = JoinTokens([i \in 1 .. Len(optOut) |-> NotationToken(optOut[i])],
                              Len(optOut))

\* cube.cpp lines 212-223: the amount digit of a move is 0 for a clockwise quarter turn,
\* 1 for a half turn and 2 for a counter-clockwise quarter turn, so the move turns its
\* face by amount + 1 clockwise quarter turns
QuarterTurns(move) == (move % 3) + 1

\* the turns done so far, as a sequence of <<face, quarter turns>> with no two adjacent
\* entries on one face and no entry of 0 quarter turns, followed by one more move
AddTurn(turns, move) ==
    IF turns # <<>> /\ turns[Len(turns)][1] = move \div 3
    THEN LET q == (turns[Len(turns)][2] + QuarterTurns(move)) % 4
         IN  IF q = 0 THEN SubSeq(turns, 1, Len(turns) - 1)
             ELSE [turns EXCEPT ![Len(turns)] = <<move \div 3, q>>]
    ELSE Append(turns, <<move \div 3, QuarterTurns(move)>>)

\* the net effect of the first n moves of l: which face is turned by how many quarter
\* turns, in order
RECURSIVE NetEffect(_, _)
NetEffect(l, n) == IF n = 0 THEN <<>> ELSE AddTurn(NetEffect(l, n - 1), l[n])

\* C28: optimizeSolution preserves the net effect of the move list: input and output
\* turn every face by the same total amount at the same place in the sequence.
C28_OptimizePreservesNetEffect ==
    optPc \in {"returned", "rendered"} =>
        NetEffect(optOut, Len(optOut)) = NetEffect(optIn, Len(optIn))

\* C29: optimizeSolution reads only positions inside the list, for every input list,
\* the empty list and a list emptied by erasing a cancelling pair included, and
\* terminates: no call ends in a read outside the vector.
C29_OptimizeReadsInsideList ==
    /\ optPc \notin {"crashed", "no return"}
    /\ optPc # "call" => optimizeSolution(optIn).kind = "returned"

NextOptimize ==
    \/ OptimizeCall
    \/ Render

SpecOptimize == InitOptimize /\ [][NextOptimize]_vars

(***************************************************************************)
(* SpecTables: the static tables shared by all Solver objects. One Solver  *)
(* has been constructed. A caller of kociemba_solve constructs a further   *)
(* Solver (`initialized` is a per-object member set to false by the        *)
(* constructor, so initTables runs again) while a search of another caller *)
(* reads the tables. No lock orders the two; the steps of the constructor  *)
(* are taken at the granularity of one do-while turn.                      *)
(***************************************************************************)
\* coordinates a phase-1 / phase-2 search looks up: <<flip, twist, slice>> and
\* <<parity, URFtoDLF, URtoBR>>
Phase1Lookups == {<<0, 0, 0>>, <<1, 0, 4>>, <<1025, 729, 4>>}
Phase2Lookups == {<<0, 0, 0>>, <<1, 4142, 0>>}

InitTables ==
    /\ CubeIdle
    /\ SolveIdle
    /\ OptIdle
    /\ TablesIdle
    /\ WalkIdle
    /\ ScrambleIdle
    /\ InverseIdle

\* solver.cpp lines 25-27, 216-220, 228-342, 346-359: Solver() enters initTables;
\* initMoveTables stores every move-table entry again (the same values);
\* initPruningTables resizes the six tables and fills them with -1
CtorFill ==
    /\ ctorPc = "idle"
    /\ prun' = [kind \in DOMAIN prun |-> <<>>]
    /\ ctorPc' = "filled"
    /\ UNCHANGED <<ctorKind, ctorDepth, seen, cubeVars, solveVars, optVars, walkVars, scrVars, invVars>>

\* solver.cpp lines 361-371: entry 0 of each table is 0; depth = 0
CtorSolvedState ==
    /\ ctorPc = "filled"
    /\ prun' = [kind \in DOMAIN prun |-> (0 :> 0)]
    /\ ctorKind' = 1
    /\ ctorDepth' = 0
    /\ ctorPc' = "pass"
    /\ UNCHANGED <<seen, cubeVars, solveVars, optVars, walkVars, scrVars, invVars>>

\* solver.cpp lines 373-477: one turn of the current do-while loop; when it set no
\* entry (done = 0) the next loop starts with depth = 0, and after the last loop
\* initTables sets initialized and the constructor returns
CtorPass ==
    /\ ctorPc = "pass"
    /\ LET kind  == KindOrder[ctorKind]
           after == PrunPass(kind, prun[kind], ctorDepth)
       IN  /\ prun' = [prun EXCEPT ![kind] = after]
           /\ IF DOMAIN after # DOMAIN prun[kind]
              THEN /\ ctorDepth' = ctorDepth + 1
                   /\ UNCHANGED <<ctorKind, ctorPc>>
              ELSE IF ctorKind < Len(KindOrder)
              THEN /\ ctorKind' = ctorKind + 1
                   /\ ctorDepth' = 0
                   /\ UNCHANGED ctorPc
              ELSE /\ ctorPc' = "constructed"
                   /\ UNCHANGED <<ctorKind, ctorDepth>>
    /\ UNCHANGED <<seen, cubeVars, solveVars, optVars, walkVars, scrVars, invVars>>

\* kociemba_wrapper.cpp lines 12-18: solve (which only reads the tables) and the
\* rendering; the call returns and the next call may start
CtorReturn ==
    /\ ctorPc = "constructed"
    /\ ctorPc' = "idle"
    /\ UNCHANGED <<prun, ctorKind, ctorDepth, seen, cubeVars, solveVars, optVars, walkVars, scrVars, invVars>>

\* solver.cpp lines 131-135: searchPhase1 of the other caller reads its three entries
SearchRead1(c) ==
    /\ seen' = [at |-> c, phase |-> 1,
                val |-> <<Entry(prun["flip"], c[1]), Entry(prun["twist"], c[2]),
                          Entry(prun["slice"], c[3])>>]
    /\ UNCHANGED <<prun, ctorPc, ctorKind, ctorDepth, cubeVars, solveVars, optVars, walkVars, scrVars, invVars>>

\* solver.cpp lines 174-178: searchPhase2 of the other caller reads its three entries
SearchRead2(c) ==
    /\ seen' = [at |-> c, phase |-> 2,
                val |-> <<Entry(prun["parity"], c[1]), Entry(prun["URFtoDLF"], c[2]),
                          Entry(prun["URtoBR"], c[3])>>]
    /\ UNCHANGED <<prun, ctorPc, ctorKind, ctorDepth, cubeVars, solveVars, optVars, walkVars, scrVars, invVars>>

\* C12: once one Solver has been constructed no table entry changes any more, and a
\* search never reads an entry other than the one that construction left.
C12_TablesImmutable ==
    /\ prun = BuiltPrun
    /\ seen # <<>> =>
          seen.val = (IF seen.phase = 1
                      THEN <<flipPrun(seen.at[1]), twistPrun(seen.at[2]), slicePrun(seen.at[3])>>
                      ELSE <<parityPrun(seen.at[1]), URFtoDLFPrun(seen.at[2]),
                             URtoBRPrun(seen.at[3])>>)

NextTables ==
    \/ CtorFill
    \/ CtorSolvedState
    \/ CtorPass
    \/ CtorReturn
    \/ \E c \in Phase1Lookups : SearchRead1(c)
    \/ \E c \in Phase2Lookups : SearchRead2(c)

SpecTables == InitTables /\ [][NextTables]_vars

(***************************************************************************)
(* SpecWalk: sequences of table lookups x -> <kind>Move[x][m] over the     *)
(* moves the table's fill loop and search use, from a start coordinate.    *)
(***************************************************************************)
InitWalk ==
    /\ CubeIdle
    /\ SolveIdle
    /\ OptIdle
    /\ TablesIdle
    /\ ScrambleIdle
    /\ InverseIdle
    /\ wKind \in DOMAIN BuiltPrun
    /\ wStart \in {x \in 0 .. MaxStart : x < TableSize(wKind)}
    /\ wCur = wStart
    /\ wPath = <<>>
    /\ wPushed = <<>>
    /\ wTried = <<>>

\* solver.cpp lines 141-146, 186-193, 377-379: one lookup in the move table
WalkMove(m) ==
    /\ Len(wPath) < MaxPath
    /\ wCur \in 0 .. TableSize(wKind) - 1
    /\ m \in TableMoves(wKind)
    /\ wCur' = TableMove(wKind, wCur, m)
    /\ wPath' = Append(wPath, m)
    /\ UNCHANGED <<wKind, wStart, wPushed, wTried, cubeVars, solveVars, optVars, tableVars, scrVars, invVars>>

\* solver.cpp lines 102-123, 168-214: phase2 calls searchPhase2 on a cube's three phase-2
\* coordinates with an empty move stack
SearchPhase2Call(parity, URtoBR, d) ==
    /\ wKind = "URFtoDLF"
    /\ wPath = <<>>
    /\ wPushed = <<>>
    /\ wPushed' = <<PushedPhase2(parity, wStart, URtoBR, d, <<>>)>>
    /\ UNCHANGED <<wKind, wStart, wCur, wPath, wTried, cubeVars, solveVars, optVars, tableVars, scrVars, invVars>>

\* solver.cpp lines 79-100, 125-166: phase1 calls searchPhase1 on a cube's three phase-1
\* coordinates with an empty move stack
SearchPhase1Call(c, d) ==
    /\ wKind = "flip"
    /\ wStart = c[1]
    /\ wPath = <<>>
    /\ wTried = <<>>
    /\ wTried' = <<TriedPhase1(c[1], c[2], c[3], d, <<>>)>>
    /\ UNCHANGED <<wKind, wStart, wCur, wPath, wPushed, cubeVars, solveVars, optVars, tableVars,
                   scrVars, invVars>>

\* C13: the stored pruning value of a coordinate is at most the number of allowed moves
\* of any move sequence that takes the coordinate to 0 through the move table.
C13_PrunNeverOverestimates ==
    wCur = 0 => Entry(BuiltPrun[wKind], wStart) <= Len(wPath)

\* the moves the specification names U, U2, U', D, D2, D', R2, L2, F2, B2
Phase2Named ==
    {m \in Moves : NotationToken(m) \in {<<"U">>, <<"U", "2">>, <<"U", "'">>,
                                         <<"D">>, <<"D", "2">>, <<"D", "'">>,
                                         <<"R", "2">>, <<"L", "2">>, <<"F", "2">>, <<"B", "2">>}}

\* C14: every move searchPhase2 pushes, and every move followed when a phase-2 pruning
\* table (URFtoDLF, URtoBR, parity) is expanded, is one of U, U2, U', D, D2, D', R2, L2,
\* F2, B2.
C14_Phase2MovesOnly ==
    /\ \A c \in 1 .. Len(wPushed) : wPushed[c] \subseteq Phase2Named
    /\ wKind \in {"URFtoDLF", "URtoBR", "parity"} =>
           \A i \in 1 .. Len(wPath) : wPath[i] \in Phase2Named

\* a phase-2 table has been expanded over two moves, the second not on U or D
C14_Witness ==
    /\ wKind = "URFtoDLF"
    /\ Len(wPath) = 2
    /\ wPath[2] \div 3 \notin {0, 3}

\* C22: for each coordinate type (twist, flip, slice, corner permutation) and each index
\* of its domain, the cube initMoveTables builds for the index has that coordinate equal
\* to the index.
C22_BuiltCubeHasItsIndex ==
    wCur \in 0 .. TableSize(wKind) - 1 =>
        CASE wKind = "twist"    -> getTwist(TwistCubeLoop(SolvedCube, 6, wCur)) = wCur
          [] wKind = "flip"     -> getFlip(FlipCubeLoop(SolvedCube, 10, wCur)) = wCur
          [] wKind = "slice"    -> getSlice(SliceCubeLoop(SolvedCube, 0, 0, wCur)) = wCur
          [] wKind = "URFtoDLF" ->
                getURFtoDLF([SolvedCube EXCEPT !.cp = PermLoop(SolvedCube.cp, 7, wCur)]) = wCur
          [] OTHER              -> TRUE

\* C25: in the searches a move m is never tried directly after a move prev on the same
\* face, nor when the two faces form an opposite pair (U/D, R/L, F/B) and the face of m
\* has the larger index: no move list built by the search has a U move directly followed
\* by a D move, an R move by an L move, or an F move by a B move.
C25_NoSameFaceNoOrderedOppositePair ==
    \A c \in 1 .. Len(wTried) : \A l \in wTried[c] : \A i \in 1 .. Len(l) - 1 :
        /\ l[i] \div 3 # l[i + 1] \div 3
        /\ l[i + 1] \div 3 # (l[i] \div 3) + 3

NextWalk ==
    \/ \E m \in Moves : WalkMove(m)
    \/ \E c \in Phase1Lookups, d \in 1 .. MaxDepthPhase1 : SearchPhase1Call(c, d)
    \/ \E parity \in 0 .. 1, URtoBR \in 0 .. MaxStart, d \in 1 .. MaxDepthPhase2 :
          SearchPhase2Call(parity, URtoBR, d)

SpecWalk == InitWalk /\ [][NextWalk]_vars

(***************************************************************************)
(* custom_cube_solver.cpp: CustomCubeSolver's scramble strings. A string   *)
(* is the sequence of its characters.                                      *)
(***************************************************************************)
\* the keys initializeMaps stores in moveMap, in the order of generateScramble's list
moveMap ==
    << <<"U">>, <<"U", "'">>, <<"U", "2">>, <<"R">>, <<"R", "'">>, <<"R", "2">>,
       <<"F">>, <<"F", "'">>, <<"F", "2">>, <<"D">>, <<"D", "'">>, <<"D", "2">>,
       <<"L">>, <<"L", "'">>, <<"L", "2">>, <<"B">>, <<"B", "'">>, <<"B", "2">> >>

\* the characters operator>> of an istream skips and stops at
Whitespace == {" ", "\t", "\n", "\r", "\f"}

\* while (iss >> move) moves.push_back(move): cur is the word being read
RECURSIVE parseMovesFrom(_, _, _, _)
parseMovesFrom(s, i, cur, moves) ==
    IF i > Len(s) THEN (IF cur # <<>> THEN Append(moves, cur) ELSE moves)
    ELSE IF s[i] \in Whitespace
    THEN parseMovesFrom(s, i + 1, <<>>, IF cur # <<>> THEN Append(moves, cur) ELSE moves)
    ELSE parseMovesFrom(s, i + 1, Append(cur, s[i]), moves)

parseMoves(moveString) == parseMovesFrom(moveString, 1, <<>>, <<>>)

\* isValidScramble looking at the first move only
isValidScrambleFirstMoveOnly(s) ==
    LET moves == parseMoves(s)
    IN  moves = <<>> \/ \E k \in 1 .. Len(moveMap) : moveMap[k] = moves[1]

isValidScramble(s) ==
    LET moves == parseMoves(s)
    IN  \A i \in 1 .. Len(moves) : \E k \in 1 .. Len(moveMap) : moveMap[k] = moves[i]

\* the string generateScramble returns when dis(gen) yields picks[1] - 1, picks[2] - 1, ...
generateScramble(picks) ==
    JoinTokens([i \in 1 .. Len(picks) |-> moveMap[picks[i]]], Len(picks))

\* custom_cube_solver.cpp lines 20-29
CubeState_isSolved(c) == \A face \in 0 .. 5 : \A sticker \in 0 .. 8 : c[face * 9 + sticker] = face

\* custom_cube_solver.cpp lines 201-220: temp is a copy of the face, sticker base+i then
\* takes temp[6, 3, 0, 7, 4, 1, 8, 5, 2][i]
rotateFace(c, face) ==
    [q \in 0 .. 53 |->
        IF q \div 9 = face
        THEN c[face * 9 + At0(<<6, 3, 0, 7, 4, 1, 8, 5, 2>>, q % 9)]
        ELSE c[q]]

\* stickers[to] = stickers[from]
CopySticker(c, to, from) == [c EXCEPT ![to] = c[from]]

\* custom_cube_solver.cpp lines 222-228: temp = s[pos1]; s[pos1] = s[pos4];
\* s[pos4] = s[pos3]; s[pos3] = s[pos2]; s[pos2] = temp
cycleFourPositions(c, pos1, pos2, pos3, pos4) ==
    [CopySticker(CopySticker(CopySticker(c, pos1, pos4), pos4, pos3), pos3, pos2)
        EXCEPT ![pos2] = c[pos1]]

\* custom_cube_solver.cpp lines 230-236
applyU(c) ==
    cycleFourPositions(cycleFourPositions(cycleFourPositions(rotateFace(c, 0),
        9, 18, 36, 45), 10, 19, 37, 46), 11, 20, 38, 47)

\* custom_cube_solver.cpp lines 238-244
applyR(c) ==
    cycleFourPositions(cycleFourPositions(cycleFourPositions(rotateFace(c, 1),
        2, 20, 29, 47), 5, 23, 32, 44), 8, 26, 35, 41)

\* custom_cube_solver.cpp lines 246-252
applyF(c) ==
    cycleFourPositions(cycleFourPositions(cycleFourPositions(rotateFace(c, 2),
        6, 38, 33, 11), 7, 41, 30, 14), 8, 44, 27, 17)

\* custom_cube_solver.cpp lines 254-260
applyD(c) ==
    cycleFourPositions(cycleFourPositions(cycleFourPositions(rotateFace(c, 3),
        24, 15, 51, 42), 25, 16, 52, 43), 26, 17, 53, 44)

\* custom_cube_solver.cpp lines 262-268
applyL(c) ==
    cycleFourPositions(cycleFourPositions(cycleFourPositions(rotateFace(c, 4),
        0, 45, 35, 18), 3, 48, 32, 21), 6, 51, 29, 24)

\* custom_cube_solver.cpp lines 270-276
applyB(c) ==
    cycleFourPositions(cycleFourPositions(cycleFourPositions(rotateFace(c, 5),
        0, 9, 35, 36), 1, 12, 34, 39), 2, 15, 33, 42)

\* one quarter turn of the face with index face (0 = U, 1 = R, 2 = F, 3 = D, 4 = L, 5 = B)
ApplyFace(c, face) ==
    CASE face = 0 -> applyU(c)
      [] face = 1 -> applyR(c)
      [] face = 2 -> applyF(c)
      [] face = 3 -> applyD(c)
      [] face = 4 -> applyL(c)
      [] OTHER -> applyB(c)

\* custom_cube_solver.cpp lines 178-199, the enum of custom_cube_solver.h lines 35-42:
\* move % 3 = 0 is the quarter turn (applied once), 1 the PRIME move (applied three
\* times), 2 the half turn (applied twice); a value outside the enum changes nothing
CustomApplyMove(c, move) ==
    IF move \notin 0 .. 17 THEN c
    ELSE CASE move % 3 = 0 -> ApplyFace(c, move \div 3)
           [] move % 3 = 1 -> ApplyFace(ApplyFace(ApplyFace(c, move \div 3), move \div 3),
                                        move \div 3)
           [] OTHER -> ApplyFace(ApplyFace(c, move \div 3), move \div 3)

\* custom_cube_solver.cpp lines 154-160: the enum value of a move name; -1 stands for
\* the std::invalid_argument thrown for any other string
stringToMove(moveStr) ==
    IF \E k \in 1 .. Len(moveMap) : moveMap[k] = moveStr
    THEN (CHOOSE k \in 1 .. Len(moveMap) : moveMap[k] = moveStr) - 1
    ELSE -1

\* custom_cube_solver.cpp lines 65-71: <<key, value>> pairs of inverseMoveMap
inverseMoveMap ==
    { << <<"U">>, <<"U", "'">> >>, << <<"U", "'">>, <<"U">> >>, << <<"U", "2">>, <<"U", "2">> >>,
      << <<"R">>, <<"R", "'">> >>, << <<"R", "'">>, <<"R">> >>, << <<"R", "2">>, <<"R", "2">> >>,
      << <<"F">>, <<"F", "'">> >>, << <<"F", "'">>, <<"F">> >>, << <<"F", "2">>, <<"F", "2">> >>,
      << <<"D">>, <<"D", "'">> >>, << <<"D", "'">>, <<"D">> >>, << <<"D", "2">>, <<"D", "2">> >>,
      << <<"L">>, <<"L", "'">> >>, << <<"L", "'">>, <<"L">> >>, << <<"L", "2">>, <<"L", "2">> >>,
      << <<"B">>, <<"B", "'">> >>, << <<"B", "'">>, <<"B">> >>, << <<"B", "2">>, <<"B", "2">> >> }

\* custom_cube_solver.cpp lines 88-93: inverseMoveMap[move] if move is a key, else move
InvertedMove(move) ==
    IF \E pair \in inverseMoveMap : pair[1] = move
    THEN (CHOOSE pair \in inverseMoveMap : pair[1] = move)[2]
    ELSE move

\* solveByInverse inverting every move but keeping the order of the scramble
solveByInverseSameOrder(scramble_) ==
    LET moves == parseMoves(scramble_)
    IN  JoinTokens([i \in 1 .. Len(moves) |-> InvertedMove(moves[i])], Len(moves))

\* custom_cube_solver.cpp lines 82-104: solutionMoves holds the inverted moves from the
\* last move of the scramble to the first, joined with single spaces
solveByInverse(scramble_) ==
    LET moves == parseMoves(scramble_)
    IN  JoinTokens([i \in 1 .. Len(moves) |-> InvertedMove(moves[Len(moves) + 1 - i])],
                   Len(moves))

\* custom_cube_solver.cpp lines 74-80: solveByInverse throws nothing, so the catch
\* branch is never taken
CustomSolve(scramble_) == solveByInverse(scramble_)

(***************************************************************************)
(* SpecInverse: a solved CubeState is turned by the moves of a scramble,   *)
(* solve is called on the scramble, and the CubeState is turned by the     *)
(* moves of the string solve returned.                                     *)
(***************************************************************************)
InitInverse ==
    /\ CubeIdle
    /\ SolveIdle
    /\ OptIdle
    /\ TablesIdle
    /\ WalkIdle
    /\ ScrambleIdle
    /\ InverseIdle

\* applyMove(cube, stringToMove(moveMap name k)) for one more move of the scramble
ScrambleMove(k) ==
    /\ invPc = "scramble"
    /\ Len(parseMoves(invScramble)) < MaxInvMoves
    /\ invScramble' = IF invScramble = <<>> THEN moveMap[k]
                      ELSE invScramble \o <<" ">> \o moveMap[k]
    /\ stickers' = CustomApplyMove(stickers, stringToMove(moveMap[k]))
    /\ UNCHANGED <<invSolution, invPc, invApplied, cubeVars, solveVars, optVars, tableVars,
                   walkVars, scrVars>>

\* solution = solver.solve(scramble)
SolveScramble ==
    /\ invPc = "scramble"
    /\ invSolution' = CustomSolve(invScramble)
    /\ invPc' = "apply"
    /\ UNCHANGED <<stickers, invScramble, invApplied, cubeVars, solveVars, optVars, tableVars,
                   walkVars, scrVars>>

\* applyMove(cube, stringToMove(move)) for the next move of the returned string;
\* stringToMove throws for a string that is no move name
SolutionMove ==
    /\ invPc = "apply"
    /\ invApplied < Len(parseMoves(invSolution))
    /\ LET move == stringToMove(parseMoves(invSolution)[invApplied + 1])
       IN  IF move = -1
           THEN /\ invPc' = "threw"
                /\ UNCHANGED <<stickers, invApplied>>
           ELSE /\ stickers' = CustomApplyMove(stickers, move)
                /\ invApplied' = invApplied + 1
                /\ UNCHANGED invPc
    /\ UNCHANGED <<invScramble, invSolution, cubeVars, solveVars, optVars, tableVars,
                   walkVars, scrVars>>

NextInverse ==
    \/ \E k \in 1 .. Len(moveMap) : ScrambleMove(k)
    \/ SolveScramble
    \/ SolutionMove

SpecInverse == InitInverse /\ [][NextInverse]_vars

\* C30: solve(scramble) is the scramble's inverse on the sticker model: once the moves
\* of the scramble and then all moves of the returned string have been applied to a
\* solved CubeState, isSolved() is true; the empty scramble gives the empty solution.
C30_SolveInvertsScramble ==
    /\ invPc # "threw"
    /\ (invPc = "apply" /\ invApplied = Len(parseMoves(invSolution))) =>
           CubeState_isSolved(stickers)
    /\ (invPc = "apply" /\ invScramble = <<>>) => invSolution = <<>>

\* a scramble of two moves on different faces left the CubeState unsolved, and both
\* moves of the returned string have been applied
C30_Witness ==
    /\ invPc = "apply"
    /\ Len(parseMoves(invScramble)) = 2
    /\ parseMoves(invScramble)[1][1] # parseMoves(invScramble)[2][1]
    /\ invApplied = 2
    /\ invApplied = Len(parseMoves(invSolution))
    /\ ~CubeState_isSolved(CustomApplyMove(CustomApplyMove(CubeState,
            stringToMove(parseMoves(invScramble)[1])), stringToMove(parseMoves(invScramble)[2])))

(***************************************************************************)
(* SpecScramble: a caller types a string or obtains one from               *)
(* generateScramble, and passes it to isValidScramble.                     *)
(***************************************************************************)
\* the characters a caller types
Typed == {"U", "X", "'", "2", " ", "\t"}

InitScramble ==
    /\ CubeIdle
    /\ SolveIdle
    /\ OptIdle
    /\ TablesIdle
    /\ WalkIdle
    /\ ScrambleIdle
    /\ InverseIdle

TypeChar(ch) ==
    /\ scrPc = "input"
    /\ Len(scramble) < MaxChars
    /\ scramble' = Append(scramble, ch)
    /\ UNCHANGED <<scrPc, scrValid, cubeVars, solveVars, optVars, tableVars, walkVars, invVars>>

GenerateScramble(picks) ==
    /\ scrPc = "input"
    /\ scramble = <<>>
    /\ scramble' = generateScramble(picks)
    /\ scrPc' = "generated"
    /\ UNCHANGED <<scrValid, cubeVars, solveVars, optVars, tableVars, walkVars, invVars>>

IsValidScramble ==
    /\ scrPc \in {"input", "generated"}
    /\ scrValid' = isValidScramble(scramble)
    /\ scrPc' = "validated"
    /\ UNCHANGED <<scramble, cubeVars, solveVars, optVars, tableVars, walkVars, invVars>>

\* the maximal runs of non-whitespace characters of s
TokensOf(s) ==
    {SubSeq(s, a, b) : <<a, b>> \in
        {ab \in (1 .. Len(s)) \X (1 .. Len(s)) :
            /\ ab[1] <= ab[2]
            /\ \A q \in ab[1] .. ab[2] : s[q] \notin Whitespace
            /\ ab[1] = 1 \/ s[ab[1] - 1] \in Whitespace
            /\ ab[2] = Len(s) \/ s[ab[2] + 1] \in Whitespace}}

\* the 18 move names of the specification
MoveNames == {NotationToken(m) : m \in Moves}

\* C15: isValidScramble returns true exactly when every whitespace-separated token of
\* the string is one of the 18 move names; in particular it returns true for every
\* string generateScramble returns.
C15_ValidScrambleIffAllTokensMoves ==
    scrPc = "validated" => scrValid = (TokensOf(scramble) \subseteq MoveNames)

\* a string of a move name and a token that is no move name has been rejected
C15_Witness ==
    /\ scrPc = "validated"
    /\ ~scrValid
    /\ Cardinality(TokensOf(scramble)) = 2
    /\ \E t \in TokensOf(scramble) : t \in MoveNames

NextScramble ==
    \/ \E ch \in Typed : TypeChar(ch)
    \/ \E n \in 0 .. MaxScramble : \E picks \in [1 .. n -> 1 .. Len(moveMap)] :
          GenerateScramble(picks)
    \/ IsValidScramble

SpecScramble == InitScramble /\ [][NextScramble]_vars

====
